---- MODULE Spec2Model ----
(***************************************************************************)
(* Emotional Text-to-Speech client (App component).                        *)
(*                                                                         *)
(* Two layers are modelled:                                                *)
(*   - the audio utilities decodeBase64 and decodePcmData, as operators    *)
(*     over sequences of characters and bytes;                             *)
(*   - the App component: its React state, the handleGenerateSpeech and    *)
(*     playAudio callbacks and the controls that invoke them.              *)
(*                                                                         *)
(* Strings are sequences of one-character strings, byte arrays are         *)
(* sequences of 0..255, and a Float32 sample is the exact fraction         *)
(* num/den (every int16 divided by 32768 is exactly representable).        *)
(***************************************************************************)
EXTENDS Integers, Sequences, FiniteSets, TLC

VARIABLES
    \* ---- App component state (useState / useRef / process.env) ----
    text,             \* textarea contents
    selectedEmotion,  \* Emotion enum value
    selectedVoice,    \* Voice enum value
    speakingRate,     \* range input, in hundredths (75, 100, 125)
    isLoading,
    error,            \* NoError (null) or a message
    audioBuffer,      \* NoBuffer (null) or a decoded AudioBuffer
    audioContextRef,  \* 0 (null) or the identity of the AudioContext
    ctxState,         \* state of that AudioContext
    apiKey,           \* whether process.env.API_KEY is set
    pending,          \* number of generateContent calls not yet settled
    \* ---- observation of the run ----
    ctxCreations,     \* how many AudioContexts have been constructed
    lastEvent,        \* what the last step did
    \* ---- direct use of the audio utilities ----
    decPc,
    base64In,
    data,
    numChannelsIn,
    sampleRateIn,
    decoded

vars ==
    << text, selectedEmotion, selectedVoice, speakingRate, isLoading, error,
       audioBuffer, audioContextRef, ctxState, apiKey, pending, ctxCreations,
       lastEvent, decPc, base64In, data, numChannelsIn, sampleRateIn, decoded >>

appVars ==
    << text, selectedEmotion, selectedVoice, speakingRate, isLoading, error,
       audioBuffer, audioContextRef, ctxState, apiKey, pending, ctxCreations,
       lastEvent >>

decVars ==
    << decPc, base64In, data, numChannelsIn, sampleRateIn, decoded >>

----------------------------------------------------------------------------
(* Bounds of the model *)

\* Longest byte array handed directly to decodePcmData.
MaxBytes == 6

\* Longest base64 string handed directly to decodeBase64.
MaxB64Len == 4

\* Largest channel count handed directly to decodePcmData.
MaxChannels == 2

\* Most generateContent calls that may be outstanding at once.
MaxPending == 2

----------------------------------------------------------------------------
(* Program constants *)

\* decodePcmData divides every int16 by 32768.0.
PcmScale == 32768

\* handleGenerateSpeech decodes at 24000 Hz ...
SampleRate == 24000

\* ... and 1 channel.
NumChannels == 1

----------------------------------------------------------------------------
(* Values *)

\* ASCII whitespace: what atob removes; trim removes these (and, beyond
\* ASCII, more).
AsciiWhitespace == {" ", "\t", "\n", "\f", "\r"}

\* The base64 alphabet, value v at position v + 1.
B64Alphabet ==
    <<
       "A", "B", "C", "D", "E", "F", "G", "H", "I", "J", "K", "L", "M", "N", "O", "P",
       "Q", "R", "S", "T", "U", "V", "W", "X", "Y", "Z", "a", "b", "c", "d", "e", "f",
       "g", "h", "i", "j", "k", "l", "m", "n", "o", "p", "q", "r", "s", "t", "u", "v",
       "w", "x", "y", "z", "0", "1", "2", "3", "4", "5", "6", "7", "8", "9", "+", "/"
    >>

\* AudioBuffer | null: null.
NoBuffer ==
    [numberOfChannels |-> 0, length |-> 0, sampleRate |-> 0, channelData |-> <<>>]

\* A value that was produced without an exception / an exception that was thrown.
Returned(bytes, buffer) ==
    [threw |-> FALSE, name |-> "", bytes |-> bytes, buffer |-> buffer]

Threw(name) ==
    [threw |-> TRUE, name |-> name, bytes |-> <<>>, buffer |-> NoBuffer]

----------------------------------------------------------------------------
(* window.atob: the forgiving-base64 decode of the HTML standard *)

IsB64Char(c) ==
    \E i \in 1..Len(B64Alphabet) : B64Alphabet[i] = c

B64Value(c) ==
    (CHOOSE i \in 1..Len(B64Alphabet) : B64Alphabet[i] = c) - 1

StripWhitespace(s) ==
    SelectSeq(s, LAMBDA c : c \notin AsciiWhitespace)

\* A string whose length is a multiple of 4 loses one or two trailing "=".
StripPadding(s) ==
    IF Len(s) > 0 /\ Len(s) % 4 = 0 /\ s[Len(s)] = "="
    THEN IF s[Len(s) - 1] = "="
         THEN SubSeq(s, 1, Len(s) - 2)
         ELSE SubSeq(s, 1, Len(s) - 1)
    ELSE s

\* The 6-bit value of the k-th character (1-based); 0 past the end.
Sextet(d, k) ==
    IF k <= Len(d) THEN B64Value(d[k]) ELSE 0

\* The j-th output byte (0-based): bits 8j .. 8j+7 of the concatenated sextets.
B64Byte(d, j) ==
    LET g == 4 * (j \div 3)
        r == j % 3
    IN  CASE r = 0 -> Sextet(d, g + 1) * 4 + (Sextet(d, g + 2) \div 16)
          [] r = 1 -> (Sextet(d, g + 2) % 16) * 16 + (Sextet(d, g + 3) \div 4)
          [] r = 2 -> (Sextet(d, g + 3) % 4) * 64 + Sextet(d, g + 4)

\* The binary string, as its sequence of char codes; or InvalidCharacterError.
\* Leftover bits (4 of 12, 2 of 18) are discarded.
atob(s) ==
    LET d == StripPadding(StripWhitespace(s))
    IN  IF Len(d) % 4 = 1 \/ \E i \in 1..Len(d) : ~IsB64Char(d[i])
        THEN Threw("InvalidCharacterError")
        ELSE Returned([j \in 1..((Len(d) * 6) \div 8) |-> B64Byte(d, j - 1)], NoBuffer)

\* decodeBase64: bytes[i] = binaryString.charCodeAt(i), stored in a Uint8Array.
decodeBase64(base64) ==
    LET binaryString == atob(base64)
    IN  IF binaryString.threw
        THEN binaryString
        ELSE Returned([i \in 1..Len(binaryString.bytes) |->
                          binaryString.bytes[i] % 256], NoBuffer)

----------------------------------------------------------------------------
(* decodePcmData *)

\* Variant: a view that would take any byte length, dropping an odd last byte.
Int16ArrayThrows_Never(byteLength) ==
    FALSE

\* new Int16Array(buffer) throws a RangeError unless the byte length is even.
Int16ArrayThrows(byteLength) ==
    byteLength % 2 # 0

\* Variant: the pattern read as a Uint16Array would read it.
ToInt16_Unsigned(u) ==
    u

\* An unsigned 16-bit pattern read as a two's complement int16.
ToInt16(u) ==
    IF u >= 32768 THEN u - 65536 ELSE u

\* The Int16Array view of the bytes: element k is bytes 2k, 2k+1 (0-based),
\* in the byte order of the platform: low byte first on every platform the
\* component runs on.
Int16View(bytes) ==
    [k \in 1..(Len(bytes) \div 2) |-> ToInt16(bytes[2 * k - 1] + 256 * bytes[2 * k])]

\* Variant: the frame count taken from the byte length.
BufferLength_Bytes(int16Length, numChannels) ==
    (2 * int16Length) \div numChannels

\* createBuffer takes its length as an unsigned long: the quotient
\* dataInt16.length / numChannels loses its fractional part.
BufferLength(int16Length, numChannels) ==
    int16Length \div numChannels

\* dataInt16[idx] / 32768.0; an index past the end reads undefined, giving NaN.
NaN ==
    [num |-> 0, den |-> 0]

SampleAt(dataInt16, idx) ==
    IF idx < Len(dataInt16)
    THEN [num |-> dataInt16[idx + 1], den |-> PcmScale]
    ELSE NaN

\* The loop runs while i < frameCount, frameCount = int16Length / numChannels
\* (not rounded); createBuffer zero-fills, and a write past the end of
\* channelData is ignored.
ChannelData(dataInt16, length, numChannels, channel) ==
    [i \in 1..length |->
        IF (i - 1) * numChannels < Len(dataInt16)
        THEN SampleAt(dataInt16, (i - 1) * numChannels + channel)
        ELSE [num |-> 0, den |-> PcmScale]]

\* decodePcmData: the Int16Array view, the buffer, the samples. ctx.createBuffer
\* throws NotSupportedError for a length of zero frames. The function is async:
\* what it throws rejects the promise the caller awaits.
decodePcmData(bytes, ctx, sampleRate, numChannels) ==
    IF Int16ArrayThrows(Len(bytes))
    THEN Threw("RangeError")
    ELSE LET dataInt16 == Int16View(bytes)
             length == BufferLength(Len(dataInt16), numChannels)
         IN  IF length = 0
             THEN Threw("NotSupportedError")
             ELSE Returned(<<>>,
                    [numberOfChannels |-> numChannels,
                     length |-> length,
                     sampleRate |-> sampleRate,
                     channelData |->
                        [c \in 1..numChannels |->
                            ChannelData(dataInt16, length, numChannels, c - 1)]])

----------------------------------------------------------------------------
(* types.ts / constants.ts *)

Emotion == {"Happy", "Sad", "Fear", "Frightened", "Angry", "Excited"}

Voice == {"Kore", "Yadu"}

EMOTIONS ==
    << [id |-> "Happy",      label |-> "Happy",      promptPrefix |-> "Say cheerfully"],
       [id |-> "Sad",        label |-> "Sad",        promptPrefix |-> "Say mournfully"],
       [id |-> "Fear",       label |-> "Fearful",    promptPrefix |-> "Say with fear"],
       [id |-> "Frightened", label |-> "Frightened", promptPrefix |-> "Say in a frightened tone"],
       [id |-> "Angry",      label |-> "Angry",      promptPrefix |-> "Say angrily"],
       [id |-> "Excited",    label |-> "Excited",    promptPrefix |-> "Say excitedly"] >>

VOICES ==
    << [id |-> "Kore", label |-> "Female",      voiceName |-> "Kore"],
       [id |-> "Yadu", label |-> "Indian Male", voiceName |-> "Yadu"] >>

\* The speed slider: min 0.75, max 1.25, step 0.25, in hundredths.
SpeakingRates == {75, 100, 125}

----------------------------------------------------------------------------
(* App component: values *)

\* useState<string>(...): the text the component starts with.
InitialText ==
    <<
       "H", "e", "l", "l", "o", "!", " ", "I", " ", "c", "a", "n",
       " ", "s", "p", "e", "a", "k", " ", "w", "i", "t", "h", " ",
       "d", "i", "f", "f", "e", "r", "e", "n", "t", " ", "e", "m",
       "o", "t", "i", "o", "n", "s", ".", " ", "T", "r", "y", " ",
       "s", "e", "l", "e", "c", "t", "i", "n", "g", " ", "o", "n",
       "e", " ", "b", "e", "l", "o", "w", " ", "a", "n", "d", " ",
       "g", "e", "n", "e", "r", "a", "t", "e", " ", "a", "u", "d",
       "i", "o", "."
    >>

\* What the user may type into the textarea.
TextInputs ==
    { <<>>, <<" ">>, <<" ", "H", "i", "\n">> }

\* string | null: null.
NoError == "<null>"

InvalidInputMessage == "Please enter text and ensure your API key is configured."

InvalidEmotionMessage == "Invalid emotion selected."

NoAudioMessage == "No audio data received from the API."

UnknownErrorMessage == "An unknown error occurred."

\* String.prototype.trim: the string without leading and trailing whitespace.
Trim(s) ==
    LET keep == {i \in 1..Len(s) : s[i] \notin AsciiWhitespace}
    IN  IF keep = {}
        THEN <<>>
        ELSE SubSeq(s, CHOOSE i \in keep : \A j \in keep : i <= j,
                       CHOOSE i \in keep : \A j \in keep : j <= i)

\* Variant: only the text is looked at.
InputRejected_TextOnly(t, key) ==
    Trim(t) = <<>>

\* if (!text.trim() || !process.env.API_KEY)
InputRejected(t, key) ==
    Trim(t) = <<>> \/ ~key

\* EMOTIONS.find(e => e.id === selectedEmotion): an index, or 0 for undefined.
FindEmotion(id) ==
    IF \E i \in 1..Len(EMOTIONS) : EMOTIONS[i].id = id
    THEN CHOOSE i \in 1..Len(EMOTIONS) :
            /\ EMOTIONS[i].id = id
            /\ \A j \in 1..(i - 1) : EMOTIONS[j].id # id
    ELSE 0

----------------------------------------------------------------------------
(* The speech service: how a generateContent call may settle *)

\* A content part: inline data (with its base64 string) or something else.
InlinePart(b64) == [hasInlineData |-> TRUE, data |-> b64]

TextPart == [hasInlineData |-> FALSE, data |-> <<>>]

Fulfilled(candidates) ==
    [fulfilled |-> TRUE, isError |-> FALSE, message |-> "", candidates |-> candidates]

\* Rejected with an Error carrying a message, or with a value that is no Error.
Rejected(isError, message) ==
    [fulfilled |-> FALSE, isError |-> isError, message |-> message, candidates |-> <<>>]

\* Base64 strings the service may return as inlineData.data:
\*   ""          the empty string
\*   "AID/fw=="  bytes 00 80 FF 7F: the samples -32768 and 32767
\*   "AAA="      bytes 00 00: one sample 0
\*   "AA=="      one byte
\*   "!"         not base64
\*   " "         whitespace only: no bytes
ServicePayloads ==
    { <<>>,
      <<"A", "I", "D", "/", "f", "w", "=", "=">>,
      <<"A", "A", "A", "=">>,
      <<"A", "A", "=", "=">>,
      <<"!">>,
      <<" ">> }

ServiceOutcomes ==
    { Rejected(TRUE, "Failed to fetch"),
      Rejected(FALSE, ""),
      Fulfilled(<<>>),
      Fulfilled(<< [parts |-> <<>>] >>),
      Fulfilled(<< [parts |-> << TextPart >>] >>),
      Fulfilled(<< [parts |-> << TextPart, InlinePart(<<"A", "A", "A", "=">>) >>] >>) }
    \cup { Fulfilled(<< [parts |-> << InlinePart(p) >>] >>) : p \in ServicePayloads }

\* Variant: the first part, of any candidate, that carries inline data.
InlineDataOf_AnyPart(candidates) ==
    IF \E c \in 1..Len(candidates) : \E p \in 1..Len(candidates[c].parts) :
          candidates[c].parts[p].hasInlineData
    THEN LET c == CHOOSE c \in 1..Len(candidates) :
                     \E p \in 1..Len(candidates[c].parts) :
                        candidates[c].parts[p].hasInlineData
             p == CHOOSE p \in 1..Len(candidates[c].parts) :
                     candidates[c].parts[p].hasInlineData
         IN  [defined |-> TRUE, data |-> candidates[c].parts[p].data]
    ELSE [defined |-> FALSE, data |-> <<>>]

\* response.candidates?.[0]?.content?.parts?.[0]?.inlineData?.data
InlineDataOf(candidates) ==
    IF /\ Len(candidates) > 0
       /\ Len(candidates[1].parts) > 0
       /\ candidates[1].parts[1].hasInlineData
    THEN [defined |-> TRUE, data |-> candidates[1].parts[1].data]
    ELSE [defined |-> FALSE, data |-> <<>>]

\* !base64Audio: undefined, or the empty string.
Falsy(base64Audio) ==
    ~base64Audio.defined \/ base64Audio.data = <<>>

\* err instanceof Error ? err.message : 'An unknown error occurred.'
\* An exception of the platform (RangeError, DOMException) is an Error; its
\* message is written as its name.
CatchMessage(isError, message) ==
    IF isError THEN message ELSE UnknownErrorMessage
----------------------------------------------------------------------------
(* App component: initial state *)

\* What a step did: the operation, how it ended, whether decodePcmData was
\* called, and the AudioContext it used (0 for none).
Event(op, outcome, decoderRan, ctx) ==
    [op |-> op, outcome |-> outcome, decoderRan |-> decoderRan, ctx |-> ctx]

AppInit ==
    /\ text = InitialText
    /\ selectedEmotion = "Happy"
    /\ selectedVoice = "Kore"
    /\ speakingRate = 100
    /\ isLoading = FALSE
    /\ error = NoError
    /\ audioBuffer = NoBuffer
    /\ audioContextRef = 0
    /\ ctxState = "none"
    /\ apiKey \in BOOLEAN
    /\ pending = 0
    /\ ctxCreations = 0
    /\ lastEvent = Event("init", "", FALSE, 0)

\* The audio utilities are not being called on their own.
DecIdle ==
    /\ decPc = "idle"
    /\ base64In = <<>>
    /\ data = <<>>
    /\ numChannelsIn = NumChannels
    /\ sampleRateIn = SampleRate
    /\ decoded = Returned(<<>>, NoBuffer)

Init ==
    /\ AppInit
    /\ DecIdle

----------------------------------------------------------------------------
(* App component: the form controls (all disabled while isLoading) *)

SetText(t) ==
    /\ ~isLoading
    /\ text' = t
    /\ lastEvent' = Event("form", "", FALSE, 0)
    /\ UNCHANGED << selectedEmotion, selectedVoice, speakingRate, isLoading, error,
                    audioBuffer, audioContextRef, ctxState, apiKey, pending,
                    ctxCreations, decVars >>

SetSelectedEmotion(e) ==
    /\ ~isLoading
    /\ selectedEmotion' = e
    /\ lastEvent' = Event("form", "", FALSE, 0)
    /\ UNCHANGED << text, selectedVoice, speakingRate, isLoading, error,
                    audioBuffer, audioContextRef, ctxState, apiKey, pending,
                    ctxCreations, decVars >>

SetSelectedVoice(v) ==
    /\ ~isLoading
    /\ selectedVoice' = v
    /\ lastEvent' = Event("form", "", FALSE, 0)
    /\ UNCHANGED << text, selectedEmotion, speakingRate, isLoading, error,
                    audioBuffer, audioContextRef, ctxState, apiKey, pending,
                    ctxCreations, decVars >>

SetSpeakingRate(r) ==
    /\ ~isLoading
    /\ speakingRate' = r
    /\ lastEvent' = Event("form", "", FALSE, 0)
    /\ UNCHANGED << text, selectedEmotion, selectedVoice, isLoading, error,
                    audioBuffer, audioContextRef, ctxState, apiKey, pending,
                    ctxCreations, decVars >>

----------------------------------------------------------------------------
(* handleGenerateSpeech, up to its await of generateContent *)

\* Variant: the previous buffer is kept.
InFlightState_KeepBuffer ==
    [isLoading |-> TRUE, error |-> NoError, audioBuffer |-> audioBuffer]

\* setIsLoading(true); setError(null); setAudioBuffer(null)
InFlightState ==
    [isLoading |-> TRUE, error |-> NoError, audioBuffer |-> NoBuffer]

\* The callback itself: nothing in it looks at isLoading.
handleGenerateSpeech ==
    /\ IF InputRejected(text, apiKey)
       THEN /\ error' = InvalidInputMessage
            /\ lastEvent' = Event("submit", "rejected", FALSE, 0)
            /\ UNCHANGED << isLoading, audioBuffer, pending >>
       ELSE IF FindEmotion(selectedEmotion) = 0
            THEN \* thrown inside the try: caught, then finally
                 /\ isLoading' = FALSE
                 /\ error' = CatchMessage(TRUE, InvalidEmotionMessage)
                 /\ audioBuffer' = InFlightState.audioBuffer
                 /\ lastEvent' = Event("submit", "invalidEmotion", FALSE, 0)
                 /\ UNCHANGED pending
            ELSE /\ pending < MaxPending
                 /\ isLoading' = InFlightState.isLoading
                 /\ error' = InFlightState.error
                 /\ audioBuffer' = InFlightState.audioBuffer
                 /\ pending' = pending + 1
                 /\ lastEvent' = Event("submit", "called", FALSE, 0)
    /\ UNCHANGED << text, selectedEmotion, selectedVoice, speakingRate,
                    audioContextRef, ctxState, apiKey, ctxCreations, decVars >>

\* The Generate Speech button: disabled={isLoading || !text.trim()}
GenerateDisabled ==
    isLoading \/ Trim(text) = <<>>

ClickGenerateSpeech ==
    /\ ~GenerateDisabled
    /\ handleGenerateSpeech

----------------------------------------------------------------------------
(* handleGenerateSpeech, from the settling of generateContent to its end *)

\* Variant: a context constructed for every payload.
NeedsNewContext_Always(ref) ==
    TRUE

\* if (!audioContextRef.current)
NeedsNewContext(ref) ==
    ref = 0

\* Variant: setIsLoading(false) as the last statement of the try block.
LoadingAfter_TryOnly(threw) ==
    IF threw THEN isLoading ELSE FALSE

\* finally { setIsLoading(false) }: runs whether or not something was thrown.
LoadingAfter(threw) ==
    FALSE

\* The awaited call settles with `outcome` and the callback runs to its end:
\* a rejection goes to the catch; a response without a truthy payload throws
\* the EmptyResponse error; otherwise the AudioContext is made if there is
\* none, the payload is decoded (either decoder may throw) and the buffer
\* stored. The await of decodePcmData resumes in the same microtask
\* checkpoint, before any other event is handled, so the step is one.
ServiceSettles(outcome) ==
    /\ pending > 0
    /\ pending' = pending - 1
    /\ LET base64Audio == InlineDataOf(outcome.candidates)
       IN  IF ~outcome.fulfilled
           THEN /\ error' = CatchMessage(outcome.isError, outcome.message)
                /\ isLoading' = LoadingAfter(TRUE)
                /\ lastEvent' = Event("settle", "serviceError", FALSE, 0)
                /\ UNCHANGED << audioBuffer, audioContextRef, ctxState, ctxCreations >>
           ELSE IF Falsy(base64Audio)
           THEN /\ error' = CatchMessage(TRUE, NoAudioMessage)
                /\ isLoading' = LoadingAfter(TRUE)
                /\ lastEvent' = Event("settle", "noAudio", FALSE, 0)
                /\ UNCHANGED << audioBuffer, audioContextRef, ctxState, ctxCreations >>
           ELSE /\ IF NeedsNewContext(audioContextRef)
                   THEN /\ audioContextRef' = ctxCreations + 1
                        /\ ctxCreations' = ctxCreations + 1
                        /\ ctxState' \in {"suspended", "running"}
                   ELSE UNCHANGED << audioContextRef, ctxState, ctxCreations >>
                /\ LET audioBytes == decodeBase64(base64Audio.data)
                       decodedBuffer ==
                           decodePcmData(audioBytes.bytes, audioContextRef',
                                         SampleRate, NumChannels)
                   IN  IF audioBytes.threw
                       THEN /\ error' = CatchMessage(TRUE, audioBytes.name)
                            /\ isLoading' = LoadingAfter(TRUE)
                            /\ lastEvent' =
                                  Event("settle", "decodeThrew", FALSE, audioContextRef')
                            /\ UNCHANGED audioBuffer
                       ELSE IF decodedBuffer.threw
                       THEN /\ error' = CatchMessage(TRUE, decodedBuffer.name)
                            /\ isLoading' = LoadingAfter(TRUE)
                            /\ lastEvent' =
                                  Event("settle", "decodeThrew", TRUE, audioContextRef')
                            /\ UNCHANGED audioBuffer
                       ELSE /\ audioBuffer' = decodedBuffer.buffer
                            /\ isLoading' = LoadingAfter(FALSE)
                            /\ lastEvent' =
                                  Event("settle", "decoded", TRUE, audioContextRef')
                            /\ UNCHANGED error
    /\ UNCHANGED << text, selectedEmotion, selectedVoice, speakingRate, apiKey,
                    decVars >>

----------------------------------------------------------------------------
(* playAudio *)

playAudio ==
    /\ IF audioBuffer = NoBuffer \/ audioContextRef = 0
       THEN /\ lastEvent' = Event("playAudio", "returnedEarly", FALSE, 0)
            /\ UNCHANGED ctxState
       ELSE /\ ctxState' = "running"
            /\ lastEvent' = Event("playAudio", "started", FALSE, audioContextRef)
    /\ UNCHANGED << text, selectedEmotion, selectedVoice, speakingRate, isLoading,
                    error, audioBuffer, audioContextRef, apiKey, pending,
                    ctxCreations, decVars >>

\* The Play button is rendered when audioBuffer && !isLoading.
PlayShown ==
    audioBuffer # NoBuffer /\ ~isLoading

ClickPlay ==
    /\ PlayShown
    /\ playAudio

----------------------------------------------------------------------------
(* The component in use *)

\* The callbacks may be invoked at any time; the controls only when enabled.
Next ==
    \/ \E t \in TextInputs : SetText(t)
    \/ \E e \in Emotion : SetSelectedEmotion(e)
    \/ \E v \in Voice : SetSelectedVoice(v)
    \/ \E r \in SpeakingRates : SetSpeakingRate(r)
    \/ ClickGenerateSpeech
    \/ handleGenerateSpeech
    \/ \E o \in ServiceOutcomes : ServiceSettles(o)
    \/ ClickPlay
    \/ playAudio

Spec ==
    Init /\ [][Next]_vars

\* The callbacks are invoked through the rendered controls only.
NextUI ==
    \/ \E t \in TextInputs : SetText(t)
    \/ \E e \in Emotion : SetSelectedEmotion(e)
    \/ \E v \in Voice : SetSelectedVoice(v)
    \/ \E r \in SpeakingRates : SetSpeakingRate(r)
    \/ ClickGenerateSpeech
    \/ \E o \in ServiceOutcomes : ServiceSettles(o)
    \/ ClickPlay

SpecUI ==
    Init /\ [][NextUI]_vars

----------------------------------------------------------------------------
(* The audio utilities called on their own *)

\* Characters of the base64 inputs: "AIA" is 00 80, "/3/" is FF 7F.
B64InputChars ==
    {"A", "I", "/", "3", "=", " ", "!"}

\* Byte values of the byte-array inputs.
ByteInputValues ==
    {0, 127, 128, 255}

SampleRateInputs ==
    {SampleRate, 44100}

SeqsUpTo(S, n) ==
    UNION {[1..k -> S] : k \in 0..n}

DecInit ==
    /\ AppInit
    /\ apiKey
    /\ numChannelsIn \in 1..MaxChannels
    /\ sampleRateIn \in SampleRateInputs
    /\ decoded = Returned(<<>>, NoBuffer)
    /\ decPc \in {"base64", "bytes"}
    /\ base64In \in (IF decPc = "base64" THEN SeqsUpTo(B64InputChars, MaxB64Len) ELSE {<<>>})
    /\ data \in (IF decPc = "bytes" THEN SeqsUpTo(ByteInputValues, MaxBytes) ELSE {<<>>})

CallDecodeBase64 ==
    /\ decPc = "base64"
    /\ LET audioBytes == decodeBase64(base64In)
       IN  IF audioBytes.threw
           THEN /\ decPc' = "threw"
                /\ decoded' = audioBytes
                /\ UNCHANGED data
           ELSE /\ decPc' = "bytes"
                /\ data' = audioBytes.bytes
                /\ UNCHANGED decoded
    /\ UNCHANGED << base64In, numChannelsIn, sampleRateIn, appVars >>

CallDecodePcmData ==
    /\ decPc = "bytes"
    /\ decoded' = decodePcmData(data, 1, sampleRateIn, numChannelsIn)
    /\ decPc' = "done"
    /\ UNCHANGED << base64In, data, numChannelsIn, sampleRateIn, appVars >>

DecNext ==
    \/ CallDecodeBase64
    \/ CallDecodePcmData

DecoderSpec ==
    DecInit /\ [][DecNext]_vars
----------------------------------------------------------------------------
(* RequestState, as encoded by (isLoading, error, audioBuffer) *)

Idle ==
    ~isLoading /\ error = NoError /\ audioBuffer = NoBuffer

InFlight ==
    isLoading /\ error = NoError /\ audioBuffer = NoBuffer

Succeeded ==
    ~isLoading /\ error = NoError /\ audioBuffer # NoBuffer

Failed ==
    ~isLoading /\ error # NoError /\ audioBuffer = NoBuffer

requestState ==
    << isLoading, error, audioBuffer >>

----------------------------------------------------------------------------
(* Properties of the App component *)

\* C1: at no time is more than one call to the speech service outstanding,
\* whatever the sequence of invocations of handleGenerateSpeech.
C1_AtMostOneOutstandingCall ==
    pending <= 1

\* C2: an invocation of handleGenerateSpeech with blank text or without an API
\* key ends with the InvalidInput message and makes no call to the service,
\* from every state.
C2_InvalidInputMakesNoCall ==
    [][(lastEvent'.op = "submit" /\ (Trim(text) = <<>> \/ ~apiKey))
          => (error' = InvalidInputMessage /\ pending' = pending)]_vars

\* A blank text was submitted with the API key set, and was rejected.
C2_Witness ==
    /\ lastEvent = Event("submit", "rejected", FALSE, 0)
    /\ Trim(text) = <<>>
    /\ apiKey
    /\ error = InvalidInputMessage

\* A fulfilled call without candidates, or whose first candidate's first part
\* carries no inline data.
C3_NoAudio(o) ==
    /\ o.fulfilled
    /\ \/ o.candidates = <<>>
       \/ o.candidates[1].parts = <<>>
       \/ ~o.candidates[1].parts[1].hasInlineData

\* C3: when the call settles with such a response, the request ends with the
\* EmptyResponse message: isLoading is cleared, no buffer is stored, the decoder
\* is not run, and a request that was InFlight is Failed.
C3_NoAudioEndsFailed ==
    [][\A o \in ServiceOutcomes :
          (C3_NoAudio(o) /\ ServiceSettles(o))
             => /\ error' = NoAudioMessage
                /\ ~isLoading'
                /\ audioBuffer' = audioBuffer
                /\ ~lastEvent'.decoderRan
                /\ pending' = pending - 1
                /\ (InFlight => Failed')]_vars

\* A call has just settled without audio and the request is Failed.
C3_Witness ==
    /\ lastEvent = Event("settle", "noAudio", FALSE, 0)
    /\ Failed
    /\ error = NoAudioMessage

\* C7: when a service call settles, whatever its outcome, isLoading is cleared
\* and exactly one of two things happened: a buffer was stored and the error
\* left alone, or a message was set and the buffer left alone; a request that
\* was InFlight ends Succeeded or Failed.
C7_SettlingLeavesInFlight ==
    [][(pending' < pending)
          => /\ ~isLoading'
             /\ \/ (audioBuffer' # NoBuffer /\ lastEvent'.outcome = "decoded"
                       /\ error' = error)
                \/ (error' # NoError /\ lastEvent'.outcome # "decoded"
                       /\ audioBuffer' = audioBuffer)
             /\ (InFlight => (Succeeded' \/ Failed'))]_vars

\* An exception thrown by decodePcmData was caught: the request is Failed.
C7_Witness ==
    /\ lastEvent.op = "settle"
    /\ lastEvent.outcome = "decodeThrew"
    /\ lastEvent.decoderRan
    /\ Failed
    /\ pending = 0

\* C8: (isLoading, error, audioBuffer) always encodes exactly one RequestState.
C8_ExactlyOneRequestState ==
    Idle \/ InFlight \/ Succeeded \/ Failed

\* C9: Succeeded and Failed persist until the next submit, every submit moves
\* the state to InFlight, and Succeeded and Failed are entered from InFlight only.
C9_Original ==
    [][/\ ((Succeeded \/ Failed) /\ lastEvent'.op # "submit")
             => requestState' = requestState
       /\ (lastEvent'.op = "submit" /\ vars' # vars) => InFlight'
       /\ (Succeeded' /\ ~Succeeded) => InFlight
       /\ (Failed' /\ ~Failed) => InFlight]_vars

\* C9, amended: the state changes only at a submit or when an outstanding call
\* settles; a submit that passes the input check moves it to InFlight and calls
\* the service; a submit that fails the check only sets the InvalidInput
\* message; Succeeded is entered only from InFlight, by a settling call, and
\* Failed only so or from Idle by a submit that fails the check.
C9_Amended ==
    [][/\ (requestState' # requestState) => lastEvent'.op \in {"submit", "settle"}
       /\ (lastEvent'.op = "submit" /\ vars' # vars /\ Trim(text) # <<>> /\ apiKey)
             => (InFlight' /\ pending' = pending + 1)
       /\ (lastEvent'.op = "submit" /\ (Trim(text) = <<>> \/ ~apiKey))
             => /\ error' = InvalidInputMessage
                /\ isLoading' = isLoading
                /\ audioBuffer' = audioBuffer
                /\ pending' = pending
       /\ (Succeeded' /\ ~Succeeded) => (InFlight /\ pending' < pending)
       /\ (Failed' /\ ~Failed)
             => \/ (InFlight /\ pending' < pending)
                \/ (Idle /\ lastEvent'.outcome = "rejected")]_vars

\* Without an API key, a submit has taken the request to Failed.
C9_Witness ==
    /\ lastEvent = Event("submit", "rejected", FALSE, 0)
    /\ ~apiKey
    /\ Failed
    /\ pending = 0

\* C10: an AudioContext is constructed at most once, by the first settling call
\* that carries a payload; once set, the ref never changes; every decode and
\* playback uses it; and while a buffer is present playAudio does not return
\* early.
C10_OneAudioContext ==
    [][/\ ctxCreations' <= 1
       /\ (audioContextRef # 0) => (audioContextRef' = audioContextRef)
       /\ (audioContextRef' # audioContextRef)
             => (lastEvent'.op = "settle"
                    /\ lastEvent'.outcome \in {"decoded", "decodeThrew"})
       /\ (lastEvent'.op = "settle" /\ lastEvent'.outcome \in {"decoded", "decodeThrew"})
             => (audioContextRef' # 0 /\ lastEvent'.ctx = audioContextRef')
       /\ (audioBuffer' # NoBuffer) => (audioContextRef' # 0)
       /\ (lastEvent'.op = "playAudio" /\ audioBuffer # NoBuffer)
             => (lastEvent'.outcome = "started" /\ lastEvent'.ctx = audioContextRef
                    /\ audioContextRef # 0)]_vars

\* A buffer decoded with the one context has been played.
C10_Witness ==
    /\ lastEvent = Event("playAudio", "started", FALSE, 1)
    /\ ctxCreations = 1
    /\ audioContextRef = 1
    /\ audioBuffer # NoBuffer

----------------------------------------------------------------------------
(* Properties of decodePcmData *)

\* decodePcmData has been run on the bytes in data.
Decoded ==
    decPc = "done"

\* A buffer of numChannelsIn sample arrays of n frames each, at sampleRateIn.
HasFrames(buffer, n) ==
    /\ buffer.numberOfChannels = numChannelsIn
    /\ buffer.sampleRate = sampleRateIn
    /\ buffer.length = n
    /\ Len(buffer.channelData) = numChannelsIn
    /\ \A c \in 1..numChannelsIn : Len(buffer.channelData[c]) = n

C5_Original ==
    (Decoded /\ Len(data) % (2 * numChannelsIn) = 0)
       => /\ ~decoded.threw
          /\ HasFrames(decoded.buffer, Len(data) \div (2 * numChannelsIn))

\* C5, amended: so for every N >= 1; for N = 0 createBuffer raises
\* NotSupportedError.
C5_Amended ==
    (Decoded /\ Len(data) % (2 * numChannelsIn) = 0)
       => IF Len(data) = 0
          THEN decoded.threw /\ decoded.name = "NotSupportedError"
          ELSE /\ ~decoded.threw
               /\ HasFrames(decoded.buffer, Len(data) \div (2 * numChannelsIn))

\* Four bytes in two channels: one frame in each.
C5_Witness ==
    /\ Decoded
    /\ numChannelsIn = 2
    /\ Len(data) = 4
    /\ ~decoded.threw
    /\ HasFrames(decoded.buffer, 1)

====
